---- MODULE Spec2Model ----
(***************************************************************************)
(* The commit graph writer of commit-graph.c: write_commit_graph and the   *)
(* four chunk encoders.  The file is modelled byte for byte; a uint32_t is *)
(* the sequence of its four bytes in network order and a 64-bit timestamp  *)
(* the sequence of its eight bytes.                                        *)
(***************************************************************************)
EXTENDS Integers, Sequences, FiniteSets, Bags, TLC

\* ------------------------------------------------------------ bounds
\* number of objects the pack iterator delivers in one run
MaxEnum == 3

\* ------------------------------------------------------------ constants
GRAPH_SIGNATURE == 1128747080
GRAPH_CHUNKID_OIDFANOUT == 1330201670
GRAPH_CHUNKID_OIDLOOKUP == 1330201676
GRAPH_CHUNKID_DATA == 1128546644
GRAPH_CHUNKID_LARGEEDGES == 1162102597
GRAPH_DATA_WIDTH == 36
GRAPH_VERSION == 1
GRAPH_OID_VERSION == 1
GRAPH_OID_LEN == 20
GRAPH_PARENT_MISSING == 2147483647
GRAPH_PARENT_NONE == 1879048192
GRAPH_CHUNKLOOKUP_WIDTH == 12
GRAPH_FANOUT_SIZE == 4 * 256
GRAPH_CHUNKLOOKUP_SIZE == 5 * GRAPH_CHUNKLOOKUP_WIDTH
\* 0x80000000 as the four bytes of a uint32_t
GRAPH_LARGE_EDGES_NEEDED == <<128, 0, 0, 0>>
GRAPH_LAST_EDGE == <<128, 0, 0, 0>>
GRAPH_EDGE_LAST_MASK == <<127, 255, 255, 255>>

\* ------------------------------------------------------------ words and bytes
\* htonl / sha1write_be32 of a value below 2^31
Be32(x) == <<(x \div 16777216) % 256, (x \div 65536) % 256, (x \div 256) % 256, x % 256>>

\* the value of a word whose high bit is clear
Val32(w) == ((w[1] * 256 + w[2]) * 256 + w[3]) * 256 + w[4]

HighBit(w) == w[1] >= 128

RECURSIVE BitOr8(_, _, _)
BitOr8(a, b, n) ==
    IF n = 0 THEN 0
    ELSE (IF a % 2 = 1 \/ b % 2 = 1 THEN 1 ELSE 0) + 2 * BitOr8(a \div 2, b \div 2, n - 1)

RECURSIVE BitAnd8(_, _, _)
BitAnd8(a, b, n) ==
    IF n = 0 THEN 0
    ELSE (IF a % 2 = 1 /\ b % 2 = 1 THEN 1 ELSE 0) + 2 * BitAnd8(a \div 2, b \div 2, n - 1)

\* a | b and a & b on uint32_t
Or32(a, b) ==
    <<BitOr8(a[1], b[1], 8), BitOr8(a[2], b[2], 8), BitOr8(a[3], b[3], 8),
      BitOr8(a[4], b[4], 8)>>
And32(a, b) ==
    <<BitAnd8(a[1], b[1], 8), BitAnd8(a[2], b[2], 8), BitAnd8(a[3], b[3], 8),
      BitAnd8(a[4], b[4], 8)>>

\* the word at byte offset off (from 0) of a byte sequence
WordAt(bytes, off) == <<bytes[off + 1], bytes[off + 2], bytes[off + 3], bytes[off + 4]>>

RECURSIVE Flatten(_)
Flatten(ss) == IF ss = <<>> THEN <<>> ELSE Head(ss) \o Flatten(Tail(ss))

Zeros(n) == <<>> \o [i \in 1..n |-> 0]

\* ------------------------------------------------------------ the object store
\* a 20-byte identifier with first bytes a, b
Oid(a, b) == <<a, b>> \o Zeros(GRAPH_OID_LEN - 2)

\* a 64-bit timestamp with high word hi and low word bytes lo
Date(hi, lo) == Be32(hi) \o lo

OidA == Oid(0, 9)
OidB == Oid(5, 1)
OidM == Oid(5, 2)
OidX == Oid(255, 0)
OidY == Oid(128, 7)
OidZ == Oid(5, 0)
OidBlob == Oid(5, 3)

\* the commits of the repository: root, one parent, merge, two octopus merges.
\* OidZ names a commit that is in no pack.
Repo ==
    { [oid |-> OidA, tree |-> Oid(17, 1), parents |-> <<>>,
       date |-> Date(0, Be32(1000))],
      [oid |-> OidB, tree |-> Oid(17, 2), parents |-> <<OidA>>,
       date |-> Date(1, <<128, 0, 0, 5>>)],
      [oid |-> OidM, tree |-> Oid(17, 3), parents |-> <<OidB, OidA>>,
       date |-> Date(7, Be32(77))],
      [oid |-> OidX, tree |-> Oid(17, 4), parents |-> <<OidM, OidZ, OidA>>,
       date |-> Date(2, Be32(3))],
      [oid |-> OidY, tree |-> Oid(17, 5), parents |-> <<OidZ, OidX, OidA, OidB>>,
       date |-> Date(0, <<255, 255, 255, 255>>)] }

CommitOids == {c.oid : c \in Repo}

\* the objects of the packs
PackObjects == CommitOids \cup {OidBlob}

IsCommit(oid) == oid \in CommitOids

\* what the iterator can deliver: an object and whether unpack_entry can read
\* it; the entries that cannot be read are entries of commits
PackEntries ==
    {e \in [oid : PackObjects, ok : BOOLEAN] : e.ok \/ IsCommit(e.oid)}

lookup_commit(oid) == CHOOSE c \in Repo : c.oid = oid

\* ------------------------------------------------------------ oidcmp
\* memcmp over the GRAPH_OID_LEN bytes: the sign of the first difference
memcmp(a, b) ==
    LET diff == {i \in 1..GRAPH_OID_LEN : a[i] # b[i]}
    IN  IF diff = {} THEN 0
        ELSE LET i == CHOOSE j \in diff : \A k \in diff : j <= k
             IN  IF a[i] < b[i] THEN -1 ELSE 1

oidcmp(a, b) == memcmp(a, b)

\* ------------------------------------------------------------ commit_pos
\* binary search of oid in the table; <<found, pos>>
RECURSIVE commit_pos_loop(_, _, _, _)
commit_pos_loop(commits, oid, first, last) ==
    IF first < last
    THEN LET mid == first + (last - first) \div 2
             cmp == oidcmp(oid, commits[mid + 1].oid)
         IN  IF cmp = 0 THEN <<TRUE, mid>>
             ELSE IF cmp > 0 THEN commit_pos_loop(commits, oid, mid + 1, last)
             ELSE commit_pos_loop(commits, oid, first, mid)
    ELSE <<FALSE, first>>

commit_pos(commits, oid) == commit_pos_loop(commits, oid, 0, Len(commits))

\* ------------------------------------------------------------ write_graph_chunk_fanout
\* fanout_while with an if in place of the while: at most one commit is
\* counted for a first byte
fanout_while_once(commits, i, count, list) ==
    IF list < Len(commits) /\ commits[list + 1].oid[1] = i
    THEN <<count + 1, list + 1>>
    ELSE <<count, list>>

\* the inner while loop for one value of i: <<count, list>> after it
RECURSIVE fanout_while(_, _, _, _)
fanout_while(commits, i, count, list) ==
    IF list < Len(commits) /\ commits[list + 1].oid[1] = i
    THEN fanout_while(commits, i, count + 1, list + 1)
    ELSE <<count, list>>

\* the for loop run for i = lo .. hi from the state <<count, list>>: the bytes
\* written by sha1write_be32 and the state after it (the iterations are grouped
\* in halves, which keeps their order)
RECURSIVE fanout_for(_, _, _, _, _)
fanout_for(commits, lo, hi, count, list) ==
    IF lo = hi
    THEN LET r == fanout_while(commits, lo, count, list)
         IN  [bytes |-> Be32(r[1]), count |-> r[1], list |-> r[2]]
    ELSE LET mid == (lo + hi) \div 2
             left == fanout_for(commits, lo, mid, count, list)
             right == fanout_for(commits, mid + 1, hi, left.count, left.list)
         IN  [bytes |-> left.bytes \o right.bytes, count |-> right.count,
              list |-> right.list]

write_graph_chunk_fanout(commits) == fanout_for(commits, 0, 255, 0, 0).bytes

\* ------------------------------------------------------------ write_graph_chunk_oids
write_graph_chunk_oids(commits) ==
    Flatten([i \in 1..Len(commits) |-> commits[i].oid])

\* ------------------------------------------------------------ write_graph_chunk_data
\* the first edge value of a commit
parent0_slot(commits, c) ==
    IF c.parents = <<>> THEN Be32(GRAPH_PARENT_NONE)
    ELSE LET r == commit_pos(commits, c.parents[1])
         IN  IF r[1] THEN Be32(r[2]) ELSE Be32(GRAPH_PARENT_MISSING)

\* the second edge value of a commit, num_large_edges being the counter so far
parent1_slot(commits, c, num_large_edges) ==
    IF Len(c.parents) < 2 THEN Be32(GRAPH_PARENT_NONE)
    ELSE IF Len(c.parents) > 2
         THEN Or32(GRAPH_LARGE_EDGES_NEEDED, Be32(num_large_edges))
    ELSE LET r == commit_pos(commits, c.parents[2])
         IN  IF r[1] THEN Be32(r[2]) ELSE Be32(GRAPH_PARENT_MISSING)

\* large_edges_after with the first parent counted too
large_edges_after_all(c, num_large_edges) ==
    IF Len(c.parents) > 2
    THEN num_large_edges + Len(c.parents)
    ELSE num_large_edges

\* the do-while that advances num_large_edges over the parents after the first
large_edges_after(c, num_large_edges) ==
    IF Len(c.parents) > 2
    THEN num_large_edges + (Len(c.parents) - 1)
    ELSE num_large_edges

\* packedDate[0], packedDate[1] of a 64-bit date
packed_date(date) ==
    And32(SubSeq(date, 1, 4), Be32(3)) \o SubSeq(date, 5, 8)

data_record(commits, c, num_large_edges) ==
    c.tree \o parent0_slot(commits, c) \o parent1_slot(commits, c, num_large_edges)
           \o packed_date(c.date)

\* the while loop from list = commits + i on: the bytes written and the
\* final value of num_large_edges
RECURSIVE data_loop(_, _, _)
data_loop(commits, i, num_large_edges) ==
    IF i < Len(commits)
    THEN LET c == commits[i + 1]
             rest == data_loop(commits, i + 1, large_edges_after(c, num_large_edges))
         IN  [bytes |-> data_record(commits, c, num_large_edges) \o rest.bytes,
              num_large_edges |-> rest.num_large_edges]
    ELSE [bytes |-> <<>>, num_large_edges |-> num_large_edges]

write_graph_chunk_data(commits) == data_loop(commits, 0, 0)

\* ------------------------------------------------------------ write_graph_chunk_large_edges
\* the parent count as the first for loop counts it
num_parents_capped(c) == IF Len(c.parents) < 3 THEN Len(c.parents) ELSE 3

\* large_edge_entry without the end mark on a missing parent
large_edge_entry_bare_missing(commits, c, j) ==
    LET last_edge == IF j = Len(c.parents) THEN GRAPH_LAST_EDGE ELSE Be32(0)
        r == commit_pos(commits, c.parents[j])
    IN  IF r[1] THEN Or32(Be32(r[2]), last_edge)
        ELSE Be32(GRAPH_PARENT_MISSING)

\* the entry written for the j-th parent (from 1) of c
large_edge_entry(commits, c, j) ==
    LET last_edge == IF j = Len(c.parents) THEN GRAPH_LAST_EDGE ELSE Be32(0)
        r == commit_pos(commits, c.parents[j])
    IN  IF r[1] THEN Or32(Be32(r[2]), last_edge)
        ELSE Or32(Be32(GRAPH_PARENT_MISSING), last_edge)

\* the entries written for one commit
large_edge_run(commits, c) ==
    IF num_parents_capped(c) <= 2 THEN <<>>
    ELSE Flatten([j \in 1..(Len(c.parents) - 1) |-> large_edge_entry(commits, c, j + 1)])

write_graph_chunk_large_edges(commits) ==
    Flatten([i \in 1..Len(commits) |-> large_edge_run(commits, commits[i])])

\* ------------------------------------------------------------ the commit set builder
\* sort_oids that leaves the list as it was collected
sort_oids_skipped(list) == list

\* QSORT(oids.list, oids.nr, commit_compare)
RECURSIVE insert_sorted(_, _)
insert_sorted(s, x) ==
    IF s = <<>> THEN <<x>>
    ELSE IF oidcmp(x, Head(s)) <= 0 THEN <<x>> \o s
    ELSE <<Head(s)>> \o insert_sorted(Tail(s), x)

RECURSIVE sort_oids(_)
sort_oids(list) ==
    IF list = <<>> THEN <<>>
    ELSE insert_sorted(sort_oids(Tail(list)), Head(list))

\* is_duplicate that never skips
is_duplicate_never(list, i) == FALSE

\* whether the builder loop skips oids.list[i] (i from 1)
is_duplicate(list, i) == i > 1 /\ oidcmp(list[i - 1], list[i]) = 0

\* the loop filling commits.list from the sorted list, from index i on
RECURSIVE build_commits(_, _)
build_commits(list, i) ==
    IF i > Len(list) THEN <<>>
    ELSE IF is_duplicate(list, i) THEN build_commits(list, i + 1)
    ELSE <<lookup_commit(list[i])>> \o build_commits(list, i + 1)

\* what one commit adds to num_long_edges
long_edges_of(c) == IF Len(c.parents) > 2 THEN Len(c.parents) - 1 ELSE 0

RECURSIVE count_long_edges(_, _)
count_long_edges(commits, i) ==
    IF i > Len(commits) THEN 0
    ELSE long_edges_of(commits[i]) + count_long_edges(commits, i + 1)

\* num_chunks_of that needs more than two overflow edges
num_chunks_of_late(num_long_edges) == IF num_long_edges > 2 THEN 4 ELSE 3

num_chunks_of(num_long_edges) == IF num_long_edges # 0 THEN 4 ELSE 3

\* ------------------------------------------------------------ the chunk lookup table
chunk_ids_of(num_long_edges) ==
    <<GRAPH_CHUNKID_OIDFANOUT, GRAPH_CHUNKID_OIDLOOKUP, GRAPH_CHUNKID_DATA,
      IF num_long_edges # 0 THEN GRAPH_CHUNKID_LARGEEDGES ELSE 0, 0>>

chunk_offsets_of(nr, num_long_edges) ==
    LET o0 == 8 + GRAPH_CHUNKLOOKUP_SIZE
        o1 == o0 + GRAPH_FANOUT_SIZE
        o2 == o1 + GRAPH_OID_LEN * nr
        o3 == o2 + (GRAPH_OID_LEN + 16) * nr
        o4 == o3 + 4 * num_long_edges
    IN  <<o0, o1, o2, o3, o4>>

\* chunk_offsets[i] >> 32
Hi32(x) == (x \div 65536) \div 65536

\* chunk_offsets[i] & 0xffffffff
Lo32(x) == x - ((Hi32(x) * 65536) * 65536)

chunk_write(id, offset) == Be32(id) \o Be32(Hi32(offset)) \o Be32(Lo32(offset))

lookup_table(nr, num_long_edges, num_chunks) ==
    Flatten([i \in 1..(num_chunks + 1) |->
                chunk_write(chunk_ids_of(num_long_edges)[i],
                            chunk_offsets_of(nr, num_long_edges)[i])])

header_bytes(num_chunks) ==
    Be32(GRAPH_SIGNATURE) \o <<GRAPH_VERSION, GRAPH_OID_VERSION, num_chunks, 0>>

\* ------------------------------------------------------------ the hash-file
\* The rolling content hash: a checksum modulo HashMod that depends on every
\* byte appended and on its position.
HashMod == 65521

\* the sum of i * d[i] over the bytes of d
weighted_sum(d) ==
    BagCardinality([i \in {j \in 1..Len(d) : d[j] > 0} |-> i * d[i]])

hash_update(ctx, d) == (31 * ctx + Len(d) + weighted_sum(d)) % HashMod

hash_final(ctx) == Be32(ctx) \o Zeros(GRAPH_OID_LEN - 4)

sha1fd == [open |-> TRUE, bytes |-> <<>>, ctx |-> 1]

sha1write(file, d) ==
    [open |-> TRUE, bytes |-> file.bytes \o d, ctx |-> hash_update(file.ctx, d)]

HexDigits == <<"0", "1", "2", "3", "4", "5", "6", "7", "8", "9", "a", "b", "c", "d", "e", "f">>

sha1_to_hex(hash) ==
    <<>> \o [k \in 1..(2 * Len(hash)) |->
        IF k % 2 = 1 THEN HexDigits[(hash[(k + 1) \div 2] \div 16) + 1]
        ELSE HexDigits[(hash[k \div 2] % 16) + 1]]

\* ------------------------------------------------------------ state
NoFile == [exists |-> FALSE, bytes |-> <<>>]
NoHashFile == [open |-> FALSE, bytes |-> <<>>, ctx |-> 0]
NoGraph == [exists |-> FALSE, name |-> <<>>, bytes |-> <<>>]
NoPrev == [exists |-> FALSE, set |-> {}, name |-> <<>>, bytes |-> <<>>]

VARIABLES
    pc,              \* the statement of write_commit_graph about to run
    pos,             \* objects the pack iterator has delivered in this run
    read_failed,     \* unpack_entry returned no buffer for some entry of this run
    collected,       \* identifiers the callback appended in this run
    oids,            \* oids.list[0 .. oids.nr - 1]
    commits,         \* commits.list[0 .. commits.nr - 1]
    num_long_edges,
    num_chunks,
    num_large_edges, \* final counter of write_graph_chunk_data
    info_dir,        \* <obj_dir>/info exists
    tmp_file,        \* the temp file: whether it exists, its contents on disk
    f,               \* the hash-file: the bytes appended and the rolling hash
    chunk_start,     \* position of f at which each chunk (and the trailer) began
    final_hash,
    graph_file,      \* the graph-<hex>.graph made by this run
    heap,            \* live allocations
    prev             \* what an earlier run collected and published

vars == <<pc, pos, read_failed, collected, oids, commits, num_long_edges, num_chunks,
          num_large_edges, info_dir, tmp_file, f, chunk_start, final_hash,
          graph_file, heap, prev>>

NoChunks == [i \in 1..5 |-> 0]

\* the locals of write_commit_graph after lines 260-265
Fresh ==
    /\ pc = "collect"
    /\ pos = 0
    /\ read_failed = FALSE
    /\ collected = {}
    /\ oids = <<>>
    /\ commits = <<>>
    /\ num_long_edges = 0
    /\ num_chunks = 0
    /\ num_large_edges = 0
    /\ tmp_file = NoFile
    /\ f = NoHashFile
    /\ chunk_start = NoChunks
    /\ final_hash = <<>>
    /\ graph_file = NoGraph
    /\ heap = {"oids.list"}

Init ==
    /\ Fresh
    /\ info_dir \in BOOLEAN
    /\ prev = NoPrev

\* ------------------------------------------------------------ collector
\* the object type the callback sees after unpack_entry
seen_types(oid, ok) ==
    IF ok THEN {IF IsCommit(oid) THEN "OBJ_COMMIT" ELSE "OBJ_BLOB"}
    ELSE {"OBJ_COMMIT", "OBJ_BAD"}

\* one call of if_packed_commit_add_to_list by for_each_packed_object
Callback(oid, ok, type) ==
    /\ pc = "collect"
    /\ pos < MaxEnum
    /\ type \in seen_types(oid, ok)
    /\ pos' = pos + 1
    /\ read_failed' = (read_failed \/ ~ok)
    /\ IF type # "OBJ_COMMIT"
       THEN UNCHANGED <<oids, collected>>
       ELSE /\ oids' = Append(oids, oid)
            /\ collected' = collected \cup {oid}
    /\ UNCHANGED <<pc, commits, num_long_edges, num_chunks, num_large_edges, info_dir,
                   tmp_file, f, chunk_start, final_hash, graph_file, heap, prev>>

\* for_each_packed_object returns; lines 269-299
BuildCommitSet ==
    /\ pc = "collect"
    /\ LET sorted == sort_oids(oids)
           list == build_commits(sorted, 1)
           n == count_long_edges(list, 1)
       IN  /\ oids' = sorted
           /\ commits' = list
           /\ num_long_edges' = n
           /\ num_chunks' = num_chunks_of(n)
    /\ heap' = heap \cup {"commits.list"}
    /\ pos' = 0
    /\ pc' = "opendir"
    /\ UNCHANGED <<read_failed, collected, num_large_edges, info_dir, tmp_file, f,
                   chunk_start, final_hash, graph_file, prev>>

\* ------------------------------------------------------------ publisher
\* lines 301-307; mkdir, when it is called, succeeds or fails
OpenInfoDir(mkdir_ok) ==
    /\ pc = "opendir"
    /\ IF info_dir \/ mkdir_ok
       THEN /\ info_dir' = TRUE
            /\ pc' = "mkstemp"
            /\ heap' = heap \cup {"tmp_file.buf"}
       ELSE /\ info_dir' = FALSE
            /\ pc' = "dead"
            /\ heap' = {}
    /\ UNCHANGED <<pos, read_failed, collected, oids, commits, num_long_edges,
                   num_chunks, num_large_edges, tmp_file, f, chunk_start, final_hash,
                   graph_file, prev>>

\* lines 309-315
MkTemp(ok) ==
    /\ pc = "mkstemp"
    /\ IF ok
       THEN /\ tmp_file' = [exists |-> TRUE, bytes |-> <<>>]
            /\ f' = sha1fd
            /\ pc' = "header"
            /\ heap' = heap
       ELSE /\ tmp_file' = NoFile
            /\ f' = NoHashFile
            /\ pc' = "dead"
            /\ heap' = {}
    /\ UNCHANGED <<pos, read_failed, collected, oids, commits, num_long_edges,
                   num_chunks, num_large_edges, info_dir, chunk_start, final_hash,
                   graph_file, prev>>

\* a step that only appends d to the hash-file
Emit(from, to, d) ==
    /\ pc = from
    /\ f' = sha1write(f, d)
    /\ pc' = to

\* lines 317-322
WriteHeader ==
    /\ Emit("header", "lookup", header_bytes(num_chunks))
    /\ UNCHANGED <<pos, read_failed, collected, oids, commits, num_long_edges,
                   num_chunks, num_large_edges, info_dir, tmp_file, chunk_start,
                   final_hash, graph_file, heap, prev>>

\* lines 324-346
WriteLookup ==
    /\ Emit("lookup", "fanout", lookup_table(Len(commits), num_long_edges, num_chunks))
    /\ UNCHANGED <<pos, read_failed, collected, oids, commits, num_long_edges,
                   num_chunks, num_large_edges, info_dir, tmp_file, chunk_start,
                   final_hash, graph_file, heap, prev>>

\* line 348
WriteFanout ==
    /\ Emit("fanout", "oids", write_graph_chunk_fanout(commits))
    /\ chunk_start' = [chunk_start EXCEPT ![1] = Len(f.bytes)]
    /\ UNCHANGED <<pos, read_failed, collected, oids, commits, num_long_edges,
                   num_chunks, num_large_edges, info_dir, tmp_file, final_hash,
                   graph_file, heap, prev>>

\* line 349
WriteOids ==
    /\ Emit("oids", "data", write_graph_chunk_oids(commits))
    /\ chunk_start' = [chunk_start EXCEPT ![2] = Len(f.bytes)]
    /\ UNCHANGED <<pos, read_failed, collected, oids, commits, num_long_edges,
                   num_chunks, num_large_edges, info_dir, tmp_file, final_hash,
                   graph_file, heap, prev>>

\* line 350
WriteData ==
    /\ LET r == write_graph_chunk_data(commits)
       IN  /\ Emit("data", "edges", r.bytes)
           /\ num_large_edges' = r.num_large_edges
    /\ chunk_start' = [chunk_start EXCEPT ![3] = Len(f.bytes)]
    /\ UNCHANGED <<pos, read_failed, collected, oids, commits, num_long_edges,
                   num_chunks, info_dir, tmp_file, final_hash, graph_file, heap, prev>>

\* line 351
WriteLargeEdges ==
    /\ Emit("edges", "close", write_graph_chunk_large_edges(commits))
    /\ chunk_start' = [chunk_start EXCEPT ![4] = Len(f.bytes)]
    /\ UNCHANGED <<pos, read_failed, collected, oids, commits, num_long_edges,
                   num_chunks, num_large_edges, info_dir, tmp_file, final_hash,
                   graph_file, heap, prev>>

\* line 353: the trailer is appended, the file flushed and closed
Sha1Close ==
    /\ pc = "close"
    /\ final_hash' = hash_final(f.ctx)
    /\ tmp_file' = [exists |-> TRUE, bytes |-> f.bytes \o hash_final(f.ctx)]
    /\ chunk_start' = [chunk_start EXCEPT ![5] = Len(f.bytes)]
    /\ f' = NoHashFile
    /\ pc' = "rename"
    /\ UNCHANGED <<pos, read_failed, collected, oids, commits, num_long_edges,
                   num_chunks, num_large_edges, info_dir, graph_file, heap, prev>>

\* Rename that removes the temp file when rename fails
Rename_unlinking(ok) ==
    /\ pc = "rename"
    /\ IF ok
       THEN /\ graph_file' = [exists |-> TRUE, name |-> sha1_to_hex(final_hash),
                               bytes |-> tmp_file.bytes]
            /\ tmp_file' = NoFile
            /\ pc' = "release"
            /\ heap' = heap \cup {"graph_name", "graph_file.buf"}
       ELSE /\ UNCHANGED graph_file
            /\ tmp_file' = NoFile
            /\ pc' = "dead"
            /\ heap' = {}
    /\ UNCHANGED <<pos, read_failed, collected, oids, commits, num_long_edges,
                   num_chunks, num_large_edges, info_dir, f, chunk_start, final_hash,
                   prev>>

\* lines 355-360
Rename(ok) ==
    /\ pc = "rename"
    /\ IF ok
       THEN /\ graph_file' = [exists |-> TRUE, name |-> sha1_to_hex(final_hash),
                               bytes |-> tmp_file.bytes]
            /\ tmp_file' = NoFile
            /\ pc' = "release"
            /\ heap' = heap \cup {"graph_name", "graph_file.buf"}
       ELSE /\ UNCHANGED <<graph_file, tmp_file>>
            /\ pc' = "dead"
            /\ heap' = {}
    /\ UNCHANGED <<pos, read_failed, collected, oids, commits, num_long_edges,
                   num_chunks, num_large_edges, info_dir, f, chunk_start, final_hash,
                   prev>>

\* lines 362-368
Release ==
    /\ pc = "release"
    /\ heap' = heap \ {"tmp_file.buf", "graph_file.buf", "oids.list"}
    /\ oids' = <<>>
    /\ pc' = "done"
    /\ UNCHANGED <<pos, read_failed, collected, commits, num_long_edges, num_chunks,
                   num_large_edges, info_dir, tmp_file, f, chunk_start, final_hash,
                   graph_file, prev>>

\* write_commit_graph is called again on the same repository
Restart ==
    /\ pc \in {"done", "dead"}
    /\ prev' = IF ~prev.exists /\ graph_file.exists
               THEN [exists |-> TRUE, set |-> collected, name |-> graph_file.name,
                     bytes |-> graph_file.bytes]
               ELSE prev
    /\ pc' = "collect"
    /\ pos' = 0
    /\ read_failed' = FALSE
    /\ collected' = {}
    /\ oids' = <<>>
    /\ commits' = <<>>
    /\ num_long_edges' = 0
    /\ num_chunks' = 0
    /\ num_large_edges' = 0
    /\ tmp_file' = NoFile
    /\ f' = NoHashFile
    /\ chunk_start' = NoChunks
    /\ final_hash' = <<>>
    /\ graph_file' = NoGraph
    /\ heap' = {"oids.list"}
    /\ UNCHANGED info_dir

\* one run of write_commit_graph
Next ==
    \/ \E e \in PackEntries, type \in {"OBJ_COMMIT", "OBJ_BLOB", "OBJ_BAD"} :
          Callback(e.oid, e.ok, type)
    \/ BuildCommitSet
    \/ \E ok \in BOOLEAN : OpenInfoDir(ok)
    \/ \E ok \in BOOLEAN : MkTemp(ok)
    \/ WriteHeader
    \/ WriteLookup
    \/ WriteFanout
    \/ WriteOids
    \/ WriteData
    \/ WriteLargeEdges
    \/ Sha1Close
    \/ \E ok \in BOOLEAN : Rename(ok)
    \/ Release

Spec == Init /\ [][Next]_vars

\* runs of write_commit_graph one after the other on the same repository
NextRerun == Next \/ Restart

SpecRerun == Init /\ [][NextRerun]_vars

\* ------------------------------------------------------------ the reader's view
\* the bytes appended so far, wherever they are now
Stream ==
    IF f.open THEN f.bytes
    ELSE IF tmp_file.exists THEN tmp_file.bytes
    ELSE graph_file.bytes

\* chunk k (1 FANOUT, 2 OID_LOOKUP, 3 DATA, 4 OVERFLOW_EDGES, 5 trailer) has
\* been emitted
Emitted(k) == chunk_start[k] # 0

N == Len(commits)

\* the table index of an identifier, GRAPH_PARENT_MISSING when it has none
IndexOf(oid) ==
    IF \E i \in 1..N : commits[i].oid = oid
    THEN (CHOOSE i \in 1..N : commits[i].oid = oid) - 1
    ELSE GRAPH_PARENT_MISSING

\* what a reader has to recover for a commit
ExpectedParents(c) == [j \in 1..Len(c.parents) |-> IndexOf(c.parents[j])]

\* the entries of OVERFLOW_EDGES that come before those of the i-th commit
RECURSIVE OverflowBefore(_)
OverflowBefore(i) ==
    IF i <= 1 THEN 0
    ELSE OverflowBefore(i - 1)
         + (IF Len(commits[i - 1].parents) > 2 THEN Len(commits[i - 1].parents) - 1 ELSE 0)

OverflowTotal == OverflowBefore(N + 1)

\* entry k (from 0) of the OVERFLOW_EDGES chunk
OverflowEntry(k) == WordAt(Stream, chunk_start[4] + 4 * k)

\* the number of entries in the OVERFLOW_EDGES chunk
OverflowLen == (chunk_start[5] - chunk_start[4]) \div 4

\* the entries from k up to and including the first one with the high bit set
RECURSIVE ScanOverflow(_)
ScanOverflow(k) ==
    IF k >= OverflowLen THEN <<>>
    ELSE LET e == OverflowEntry(k)
             v == Val32(And32(e, GRAPH_EDGE_LAST_MASK))
         IN  IF HighBit(e) THEN <<v>> ELSE <<v>> \o ScanOverflow(k + 1)

Slot0(i) == WordAt(Stream, chunk_start[3] + GRAPH_DATA_WIDTH * (i - 1) + GRAPH_OID_LEN)
Slot1(i) == WordAt(Stream, chunk_start[3] + GRAPH_DATA_WIDTH * (i - 1) + GRAPH_OID_LEN + 4)

\* the parents a reader recovers from the DATA record of the i-th commit
ReadParents(i) ==
    LET first == IF Slot0(i) = Be32(GRAPH_PARENT_NONE) THEN <<>> ELSE <<Val32(Slot0(i))>>
        rest == IF HighBit(Slot1(i))
                THEN ScanOverflow(Val32(And32(Slot1(i), GRAPH_EDGE_LAST_MASK)))
                ELSE IF Slot1(i) = Be32(GRAPH_PARENT_NONE) THEN <<>>
                ELSE <<Val32(Slot1(i))>>
    IN  first \o rest

\* entry i (from 1) of the chunk lookup table: its id and its 64-bit offset
LookupId(i) == Val32(WordAt(Stream, 8 + GRAPH_CHUNKLOOKUP_WIDTH * (i - 1)))
LookupOffsetHi(i) == Val32(WordAt(Stream, 8 + GRAPH_CHUNKLOOKUP_WIDTH * (i - 1) + 4))
LookupOffsetLo(i) == Val32(WordAt(Stream, 8 + GRAPH_CHUNKLOOKUP_WIDTH * (i - 1) + 8))

\* where the chunk with the given id really begins
ActualStart(id) ==
    IF id = GRAPH_CHUNKID_OIDFANOUT THEN chunk_start[1]
    ELSE IF id = GRAPH_CHUNKID_OIDLOOKUP THEN chunk_start[2]
    ELSE IF id = GRAPH_CHUNKID_DATA THEN chunk_start[3]
    ELSE IF id = GRAPH_CHUNKID_LARGEEDGES THEN chunk_start[4]
    ELSE chunk_start[5]

\* ------------------------------------------------------------ claims

\* C1: every offset written into the chunk lookup table equals the byte
\* position at which that chunk begins in the emitted file, and the offset of
\* the terminating entry (id 0) equals the position at which the trailer starts.
C1_OffsetCorrectness ==
    Emitted(5) =>
        \A i \in 1..(num_chunks + 1) :
            /\ LookupOffsetHi(i) = 0
            /\ LookupOffsetLo(i) = ActualStart(LookupId(i))

\* C2: for every commit of the table, a reader that starts at its DATA record
\* and follows Parent-0, Parent-1 and, when the high bit of Parent-1 is set,
\* the OVERFLOW_EDGES run it points to, recovers exactly the commit's parents
\* in order: the table index of a parent that is in the table, 0x7FFFFFFF for
\* one that is not; the offset stored in Parent-1 is the position at which the
\* commit's first overflow entry is emitted.
C2_ParentRoundTrip ==
    Emitted(5) =>
        \A i \in 1..N :
            /\ ReadParents(i) = ExpectedParents(commits[i])
            /\ Len(commits[i].parents) > 2 =>
                   /\ HighBit(Slot1(i))
                   /\ Val32(And32(Slot1(i), GRAPH_EDGE_LAST_MASK)) = OverflowBefore(i)

\* C2 witness: a finished file in which a commit with more than two parents,
\* one of them missing and one in the table, has its run after another run.
C2_Witness ==
    /\ Emitted(5)
    /\ \E i \in 1..N :
          /\ Len(commits[i].parents) > 2
          /\ OverflowBefore(i) > 0
          /\ \E j, k \in 1..Len(commits[i].parents) :
                /\ ReadParents(i)[j] = GRAPH_PARENT_MISSING
                /\ ReadParents(i)[k] < N
    /\ \E i \in 1..N : Len(commits[i].parents) < 2

\* C3: every commit with more than two parents has exactly parent_count - 1
\* consecutive entries in OVERFLOW_EDGES, one for each parent after the first
\* in order, only the last of them with bit 0x80000000 set; the other commits
\* have none, so the number of entries equals num_long_edges of the builder
\* and the final num_large_edges of write_graph_chunk_data.
C3_OverflowRuns ==
    Emitted(5) =>
        /\ OverflowLen = OverflowTotal
        /\ 4 * OverflowLen = chunk_start[5] - chunk_start[4]
        /\ num_long_edges = OverflowLen
        /\ num_large_edges = OverflowLen
        /\ \A i \in 1..N :
              LET k == Len(commits[i].parents)
              IN  k > 2 =>
                    \A t \in 1..(k - 1) :
                        LET e == OverflowEntry(OverflowBefore(i) + t - 1)
                        IN  /\ HighBit(e) = (t = k - 1)
                            /\ Val32(And32(e, GRAPH_EDGE_LAST_MASK))
                                   = IndexOf(commits[i].parents[t + 1])

\* C3 witness: a finished file with two runs, the last parent of one run and
\* an earlier parent of a run missing from the table.
C3_Witness ==
    /\ Emitted(5)
    /\ \E i \in 1..N :
          /\ Len(commits[i].parents) > 2
          /\ IndexOf(commits[i].parents[Len(commits[i].parents)]) = GRAPH_PARENT_MISSING
    /\ \E i \in 1..N :
          /\ Len(commits[i].parents) > 2
          /\ IndexOf(commits[i].parents[2]) = GRAPH_PARENT_MISSING
          /\ OverflowBefore(i) > 0

\* C4: whatever the iterator delivered, in whatever order and however often,
\* the commit table is strictly increasing by identifier and holds each
\* collected identifier exactly once and nothing else, so N is the number of
\* distinct identifiers; the OID_LOOKUP chunk is the table's identifiers and
\* is strictly increasing.
C4_SortedDistinct ==
    /\ pc # "collect" =>
          /\ \A i \in 1..(N - 1) : oidcmp(commits[i].oid, commits[i + 1].oid) < 0
          /\ {commits[i].oid : i \in 1..N} = collected
          /\ N = Cardinality(collected)
    /\ Emitted(3) =>
          /\ chunk_start[3] - chunk_start[2] = GRAPH_OID_LEN * Cardinality(collected)
          /\ \A i \in 1..N :
                SubSeq(Stream, chunk_start[2] + GRAPH_OID_LEN * (i - 1) + 1,
                       chunk_start[2] + GRAPH_OID_LEN * i) = commits[i].oid
          /\ \A i \in 1..(N - 1) :
                oidcmp(SubSeq(Stream, chunk_start[2] + GRAPH_OID_LEN * (i - 1) + 1,
                              chunk_start[2] + GRAPH_OID_LEN * i),
                       SubSeq(Stream, chunk_start[2] + GRAPH_OID_LEN * i + 1,
                              chunk_start[2] + GRAPH_OID_LEN * (i + 1))) < 0

\* C4 witness: the OID_LOOKUP chunk written for a collection that held an
\* identifier more than once among several.
C4_Witness ==
    /\ pc = "edges"
    /\ Len(oids) > Cardinality(collected)
    /\ Cardinality(collected) >= 2

\* C5: write_graph_chunk_fanout emits exactly 256 values; the b-th is the
\* number of table identifiers whose first byte is <= b, the values do not
\* decrease and the last one is N.
C5_Fanout ==
    /\ Emitted(1) =>
          /\ \A b \in 0..255 :
                Val32(WordAt(Stream, chunk_start[1] + 4 * b))
                    = Cardinality({i \in 1..N : commits[i].oid[1] <= b})
          /\ \A b \in 1..255 :
                Val32(WordAt(Stream, chunk_start[1] + 4 * (b - 1)))
                    <= Val32(WordAt(Stream, chunk_start[1] + 4 * b))
          /\ Val32(WordAt(Stream, chunk_start[1] + 4 * 255)) = N
    /\ Emitted(2) => chunk_start[2] - chunk_start[1] = 4 * 256

\* C5 witness: the fan-out of a table with two identifiers that share their
\* first byte and a third one.
C5_Witness ==
    /\ pc = "oids"
    /\ N >= 3
    /\ \E i \in 1..(N - 1) : commits[i].oid[1] = commits[i + 1].oid[1]

\* C6: a graph-<hex>.graph file of this write exists only when header, lookup
\* table, every chunk and the trailer have been written and the hash-file has
\* been closed, under the name of the final hash; a write that died has made
\* no such file, and after a failed rename the temp file is still there.
C6_NoPartialPublish ==
    /\ graph_file.exists =>
          /\ pc \in {"release", "done"}
          /\ \A k \in 1..5 : Emitted(k)
          /\ ~f.open
          /\ ~tmp_file.exists
          /\ Len(graph_file.bytes)
                 = 8 + GRAPH_CHUNKLOOKUP_WIDTH * (num_chunks + 1) + GRAPH_FANOUT_SIZE
                   + GRAPH_OID_LEN * N + GRAPH_DATA_WIDTH * N + 4 * OverflowTotal
                   + GRAPH_OID_LEN
          /\ SubSeq(graph_file.bytes, chunk_start[5] + 1, Len(graph_file.bytes)) = final_hash
          /\ graph_file.name = sha1_to_hex(final_hash)
    /\ pc = "dead" => ~graph_file.exists
    /\ (pc = "dead" /\ Emitted(5)) => (tmp_file.exists /\ Len(tmp_file.bytes) > 0)
    /\ (pc = "dead" /\ ~Emitted(5)) => ~tmp_file.exists

\* C6 witness: the file of a successful write with an OVERFLOW_EDGES chunk.
C6_Witness ==
    /\ graph_file.exists
    /\ num_chunks = 4

\* C7: two runs that collect the same set of commits publish byte-identical
\* files under the same name, whatever the order and the number of times the
\* iterator delivered the commits in each run.
C7_Determinism ==
    (prev.exists /\ graph_file.exists /\ collected = prev.set) =>
        /\ graph_file.bytes = prev.bytes
        /\ graph_file.name = prev.name

\* C7 witness: a later run that was delivered some commit more than once
\* publishes for the set of several commits an earlier run published.
C7_Witness ==
    /\ prev.exists
    /\ graph_file.exists
    /\ collected = prev.set
    /\ Cardinality(collected) >= 2
    /\ pc = "release"
    /\ Len(oids) > Cardinality(collected)

\* C8: the num_chunks byte is 4 iff some commit of the table has more than two
\* parents, else 3; the lookup table has num_chunks + 1 entries with the ids
\* FANOUT, OID_LOOKUP, DATA, OVERFLOW_EDGES only when num_chunks = 4, then 0;
\* OVERFLOW_EDGES has no bytes when num_chunks = 3; the file of the empty
\* commit set is 8 + 4 * 12 + 1024 + 20 bytes long.
C8_ChunkCount ==
    LET nc == IF \E i \in 1..N : Len(commits[i].parents) > 2 THEN 4 ELSE 3
        ids == IF nc = 4
               THEN <<GRAPH_CHUNKID_OIDFANOUT, GRAPH_CHUNKID_OIDLOOKUP,
                      GRAPH_CHUNKID_DATA, GRAPH_CHUNKID_LARGEEDGES, 0>>
               ELSE <<GRAPH_CHUNKID_OIDFANOUT, GRAPH_CHUNKID_OIDLOOKUP,
                      GRAPH_CHUNKID_DATA, 0>>
    IN  /\ Len(Stream) >= 8 => Stream[7] = nc
        /\ Emitted(1) =>
              /\ chunk_start[1] = 8 + GRAPH_CHUNKLOOKUP_WIDTH * (nc + 1)
              /\ \A i \in 1..(nc + 1) : LookupId(i) = ids[i]
        /\ (Emitted(5) /\ nc = 3) => chunk_start[5] = chunk_start[4]
        /\ (Emitted(5) /\ N = 0) => Len(Stream) = 8 + 4 * 12 + 1024 + 20

\* C8 witness: the finished file of the empty commit set.
C8_Witness ==
    /\ Emitted(5)
    /\ N = 0
    /\ Len(Stream) > 0

\* C9: when unpack_entry returns no buffer for an enumerated object, the write
\* aborts: the collector does not go on, and no temp file or graph file is
\* produced from the remaining entries.
C9_ReadFailureAborts ==
    read_failed => (pc \in {"collect", "dead"} /\ ~tmp_file.exists /\ ~graph_file.exists)

\* C10: oids.list and commits.list are both released before the temp file is
\* renamed to its final name (and commits.list not before the last chunk).
C10_ReleasedBeforeRename ==
    /\ graph_file.exists => ("oids.list" \notin heap /\ "commits.list" \notin heap)
    /\ (pc \in {"header", "lookup", "fanout", "oids", "data", "edges"}) =>
           "commits.list" \in heap

====
